---------------------------- MODULE Spec2Model ----------------------------
(***************************************************************************)
(* A model of the number guessing game show: the RefereeAgent (secret,     *)
(* valid range, per-player tries), the single PlayerAgent shared by all    *)
(* players (guess selection), and the GameEngine that runs the turns.      *)
(*                                                                         *)
(* Conventions.                                                            *)
(*  - Python's None is the empty sequence <<>>; a set value n is <<n>>.    *)
(*  - A range (min, max) is the pair <<min, max>>.                         *)
(*  - Player ids ("player1", "player2", ...) are the integers 1, 2, ...    *)
(*  - The text an external model returns is opaque: a narration is the     *)
(*    tuple of what the narrator was asked about; reasoning text is not    *)
(*    kept.  Each external call may raise, which aborts the handler that   *)
(*    awaits it and keeps the mutations made before it.                    *)
(***************************************************************************)
EXTENDS Integers, Sequences, FiniteSets, TLC

(* ------------------------------ bounds -------------------------------- *)

\* start_game creates between one and MaxPlayers players.
MaxPlayers == 3

\* Games of at most SmallPlayers players are the ones explored with external
\* calls that raise and with direct calls of decide_action / check_game_over.
SmallPlayers == 2

\* External calls (secret chooser, action advisor, narrator) that raise.
MaxFailures == 1

\* Times the secret chooser is asked (start_game asks once; validate_guess
\* asks again whenever the stored secret is falsy).
MaxChooserCalls == 2

\* The secret chooser may return a number up to SecretSlack outside the
\* range it was asked for (nothing in the code validates its answer).
SecretSlack == 1

\* The chooser's answers that are explored: those within SecretSpan of
\* either end of the requested range (and the slack beyond the ends), and
\* the first number get_optimal_guess picks in that range.
SecretSpan == 0

\* Numbers decide_action picks in one game (a rejected turn picks a number
\* without using up a try, so the picks are not bounded by the tries).
MaxChosen == 10

\* Referee-only behaviours: the caller's rules have min_number within
\* RuleSlack below the default, at most RangeSpan + 1 numbers and
\* max_tries_per_player within RuleSlack below the default; the guesses
\* passed in reach GuessSlack beyond the rules' range.
RuleSlack == 1
RangeSpan == 2
GuessSlack == 1

\* Times the secret chooser is asked when the Referee is used alone (enough
\* for a secret to be replaced after a player has used up all tries).
RefMaxChooserCalls == 3

\* Direct calls of PlayerAgent.decide_action explored in ApiSpec.
MaxDirectCalls == 1

\* get_optimal_guess alone: the numbers of the ranges and of the two guess
\* lists are 0..SelMaxNumber, and each list has at most SelMaxLen entries.
SelMaxNumber == 3
SelMaxLen == 1

(* -------------------------- program constants ------------------------- *)

\* GameRules(min_number=1, max_number=100, max_tries_per_player=3)
EngineMinNumber == 1
EngineMaxNumber == 100
EngineMaxTries == 3

\* GameRules defaults: min_number = 1, max_tries_per_player = 3
RulesDefaultMin == 1
RulesDefaultTries == 3

\* RefereeAgent.__init__: self.valid_range = (1, 100)
RefereeInitMin == 1
RefereeInitMax == 100

\* RefereeAgent.get_tries_remaining: self.player_tries[player_id] = 3
RefereeDefaultTries == 3

\* PlayerAgent.__init__: self.tries_remaining = 3
AgentInitTries == 3

\* GameEngine.__init__: 'shared_valid_range': (1, 100)
SharedInitMin == 1
SharedInitMax == 100

(* ------------------------------ values -------------------------------- *)

None == <<>>
Some(x) == <<x>>
Get(o) == o[1]

\* Python truthiness of an Optional[int]: None and 0 are both falsy.
Truthy(o) == o # None /\ Get(o) # 0

Contains(seq, x) == \E i \in 1..Len(seq) : seq[i] = x

VARIABLES
    ref_secret_number,      \* RefereeAgent.secret_number
    ref_valid_range,        \* RefereeAgent.valid_range
    ref_player_tries,       \* RefereeAgent.player_tries (dict)
    agent_previous_guesses, \* PlayerAgent.previous_guesses (one agent for all players)
    agent_tries_remaining,  \* PlayerAgent.tries_remaining
    agent_game_history,     \* PlayerAgent.game_history
    players,                \* GameEngine.players (dict of PlayerState)
    game_state,             \* GameEngine.game_state
    game_rules,             \* the GameRules in use
    started,                \* start_game has been entered
    submitted,              \* numbers process_guess has passed to validate_guess
    failures,               \* external calls that have raised so far
    chooser_calls,          \* times the secret chooser has been asked
    direct_calls,           \* direct decide_action calls so far
    main_loop,              \* main()'s locals and position
    ret                     \* what the last operation returned (or raised)

vars == <<ref_secret_number, ref_valid_range, ref_player_tries,
          agent_previous_guesses, agent_tries_remaining, agent_game_history,
          players, game_state, game_rules, started, submitted, failures,
          chooser_calls, direct_calls, main_loop, ret>>

refVars == <<ref_secret_number, ref_valid_range, ref_player_tries>>
agentVars == <<agent_previous_guesses, agent_tries_remaining, agent_game_history>>

(* ------------------------------ Referee ------------------------------- *)

\* The Referee's fields as one value, for the operators below.
Referee == [secret_number |-> ref_secret_number,
            valid_range   |-> ref_valid_range,
            player_tries  |-> ref_player_tries]

\* What the secret chooser may answer when asked for a number in the rules.
ChooserOutputs(rules) ==
    {n \in (rules.min_number - SecretSlack)..(rules.max_number + SecretSlack) :
        \/ n <= rules.min_number + SecretSpan
        \/ n >= rules.max_number - SecretSpan
        \/ n = rules.min_number + ((rules.max_number - rules.min_number + 1) \div 2)}

\* generate_secret_number, given the chooser's answer: always overwrites the
\* secret and resets the range to the rules' range.
GenerateSecretNumber(ref, rules, chosen) ==
    [ref EXCEPT !.secret_number = Some(chosen),
                !.valid_range = <<rules.min_number, rules.max_number>>]

\* update_range with its two comparisons exchanged.
UpdateRangeSwapped(range, secret, guess) ==
    IF guess < secret THEN <<range[1], guess - 1>>
    ELSE IF guess > secret THEN <<guess + 1, range[2]>>
    ELSE range

\* update_range that adds 1 to a guess above the secret where it should subtract 1.
UpdateRangeHighAddsOne(range, secret, guess) ==
    IF guess > secret THEN <<range[1], guess + 1>>
    ELSE IF guess < secret THEN <<guess + 1, range[2]>>
    ELSE range

\* update_range with the signs of the two corrections exchanged.
UpdateRangeWrongSign(range, secret, guess) ==
    IF guess > secret THEN <<range[1], guess + 1>>
    ELSE IF guess < secret THEN <<guess - 1, range[2]>>
    ELSE range

\* update_range: the new bounds for a guess, from the current range.
UpdateRange(range, secret, guess) ==
    IF guess > secret THEN <<range[1], guess - 1>>
    ELSE IF guess < secret THEN <<guess + 1, range[2]>>
    ELSE range

\* get_tries_remaining: a player seen for the first time gets 3 tries.
WithTries(tries, p) ==
    IF p \in DOMAIN tries THEN tries ELSE (p :> RefereeDefaultTries) @@ tries

\* Whether validate_guess consults the secret chooser first.
NeedsSecret(ref) == ~Truthy(ref.secret_number)

GuessResult(correct, dist, range, tries) ==
    [is_correct |-> correct, distance |-> dist,
     valid_range |-> range, tries_remaining |-> tries]

\* The exhaustion test written "< 0".
ExhaustedStrict(tries_remaining) == tries_remaining < 0

\* validate_guess: "if tries_remaining <= 0".
Exhausted(tries_remaining) == tries_remaining <= 0

\* The equality test applied to the wrong operand.
IsCorrectAgainstGuess(guess, secret) == guess = secret + 1

\* validate_guess: "if guess == self.secret_number".
IsCorrect(guess, secret) == guess = secret

\* validate_guess: distance = "lower" if guess > self.secret_number else "higher".
Distance(guess, secret) == IF guess > secret THEN "lower" ELSE "higher"

\* validate_guess, given the chooser's answer should it be consulted.
\* Returns the Referee afterwards and the GuessResult.
ValidateGuess(ref, guess, rules, p, chosen) ==
    LET r1 == IF NeedsSecret(ref) THEN GenerateSecretNumber(ref, rules, chosen) ELSE ref
        r2 == [r1 EXCEPT !.player_tries = WithTries(r1.player_tries, p)]
        secret == Get(r2.secret_number)
    IN  IF Exhausted(r2.player_tries[p])
        THEN [ref |-> r2,
              result |-> GuessResult(FALSE, "none", r2.valid_range, 0)]
        ELSE LET r3 == [r2 EXCEPT !.player_tries[p] = @ - 1]
             IN  IF IsCorrect(guess, secret)
                 THEN [ref |-> r3,
                       result |-> GuessResult(TRUE, "correct", r3.valid_range,
                                              r3.player_tries[p])]
                 ELSE LET r4 == [r3 EXCEPT !.valid_range =
                                     UpdateRange(r3.valid_range, secret, guess)]
                      IN  [ref |-> r4,
                           result |-> GuessResult(FALSE, Distance(guess, secret),
                                         r4.valid_range, r4.player_tries[p])]

(* ----------------------------- PlayerAgent ---------------------------- *)

\* range(min_val, max_val + 1) as a list.
RangeList(lo, hi) == [i \in 1..(hi - lo + 1) |-> lo + i - 1]

\* get_optimal_guess that forgets to exclude the numbers already guessed.
GetOptimalGuessNoExclusion(valid_range, previous_guesses, other_player_guesses) ==
    LET remaining_numbers == RangeList(valid_range[1], valid_range[2])
    IN  IF remaining_numbers = <<>> THEN valid_range[1]
        ELSE remaining_numbers[(Len(remaining_numbers) \div 2) + 1]

\* get_optimal_guess that takes the lower of two middle numbers.
GetOptimalGuessLowerMiddle(valid_range, previous_guesses, other_player_guesses) ==
    LET all_guesses == previous_guesses \o other_player_guesses
        guessed == {all_guesses[i] : i \in 1..Len(all_guesses)}
        NotGuessed(n) == n \notin guessed
        remaining_numbers == SelectSeq(RangeList(valid_range[1], valid_range[2]), NotGuessed)
    IN  IF remaining_numbers = <<>> THEN valid_range[1]
        ELSE remaining_numbers[((Len(remaining_numbers) - 1) \div 2) + 1]

\* get_optimal_guess: the middle of the numbers of the state's range that are
\* in neither list, or min_val when none is left.
GetOptimalGuess(valid_range, previous_guesses, other_player_guesses) ==
    LET all_guesses == previous_guesses \o other_player_guesses
        guessed == {all_guesses[i] : i \in 1..Len(all_guesses)}
        NotGuessed(n) == n \notin guessed
        remaining_numbers == SelectSeq(RangeList(valid_range[1], valid_range[2]), NotGuessed)
    IN  IF remaining_numbers = <<>> THEN valid_range[1]
        ELSE remaining_numbers[(Len(remaining_numbers) \div 2) + 1]

\* update_game_history(narrator_feedback): appended when not empty.
UpdateGameHistory(history, feedback) ==
    IF feedback # None
    THEN [history EXCEPT !.narrator_feedback = Append(@, Get(feedback))]
    ELSE history

\* The PlayerAgent's fields as one value.
Agent == [previous_guesses |-> agent_previous_guesses,
          tries_remaining  |-> agent_tries_remaining,
          game_history     |-> agent_game_history]

\* decide_action up to the advisor call: the agent afterwards and the number.
DecideBefore(agent, state) ==
    LET a1 == [agent EXCEPT !.tries_remaining = state.tries_remaining]
    IN  IF state.tries_remaining <= 0
        THEN [agent |-> a1, forfeit |-> TRUE, next_guess |-> 0]
        ELSE LET a2 == [a1 EXCEPT !.game_history =
                            UpdateGameHistory(@, state.last_feedback)]
             IN  [agent |-> a2, forfeit |-> FALSE,
                  next_guess |-> GetOptimalGuess(state.valid_range,
                                     a2.previous_guesses,
                                     a2.game_history.other_player_guesses)]

\* decide_action when the advisor answers: the agent afterwards and the action.
DecideAction(agent, state) ==
    LET d == DecideBefore(agent, state)
    IN  IF d.forfeit
        THEN [agent |-> d.agent,
              action |-> [action_type |-> "forfeit", number |-> 0]]
        ELSE [agent |-> [d.agent EXCEPT !.previous_guesses = Append(@, d.next_guess)],
              action |-> [action_type |-> "guess", number |-> d.next_guess]]

(* ------------------------------ Narrator ------------------------------ *)

\* narrate_guess: which narration the context asks for; the text returned
\* stands for that request.
NarrateGuess(context) ==
    <<IF context.is_winner THEN "victory"
      ELSE IF context.tries_remaining <= 0 THEN "game_over" ELSE "guess",
      context.current_turn, context.player_id, context.guess>>

(* ----------------------------- GameEngine ----------------------------- *)

\* validate_range that forgets the upper bound.
ValidateRangeLowerOnly(guess, current_range) == current_range[1] <= guess

\* validate_range
ValidateRange(guess, current_range) ==
    current_range[1] <= guess /\ guess <= current_range[2]

\* process_guess: "if player_state.tries_remaining <= 0".
NoTriesLeft(state) == state.tries_remaining <= 0

\* check_game_over with any() for all().
CheckGameOverAny(ps) == \E p \in DOMAIN ps : ps[p].tries_remaining <= 0

\* check_game_over
CheckGameOver(ps) == \A p \in DOMAIN ps : ps[p].tries_remaining <= 0

\* The PlayerState start_game creates.
NewPlayerState(p) ==
    [player_id |-> p,
     previous_guesses |-> <<>>,
     min_range |-> game_rules.min_number,
     max_range |-> game_rules.max_number,
     last_feedback |-> None,
     attempts |-> 0,
     tries_remaining |-> game_rules.max_tries_per_player,
     valid_range |-> game_state.shared_valid_range]

\* update_game_state: the engine's state and every player's view of the range.
UpdatedGameState(gs, new_range, guess, narration) ==
    [gs EXCEPT !.shared_valid_range = new_range,
               !.last_guess = Some(guess),
               !.current_turn = @ + 1,
               !.game_history.narrator_feedback = Append(@, narration)]

\* update_game_state that leaves the players' copies of the range alone.
UpdatedPlayersStale(ps, new_range) == ps

\* update_game_state: the loop over self.players.values().
UpdatedPlayers(ps, new_range) ==
    [p \in DOMAIN ps |-> [ps[p] EXCEPT !.valid_range = new_range,
                                       !.min_range = new_range[1],
                                       !.max_range = new_range[2]]]

\* The GuessContext process_guess builds for the narrator.
Context(gs, state, p, number, guess_result) ==
    [current_turn |-> gs.current_turn,
     player_id |-> p,
     guess |-> number,
     is_winner |-> guess_result.is_correct,
     tries_remaining |-> state.tries_remaining - 1,
     valid_range |-> guess_result.valid_range]

(* ------------------------------- Init --------------------------------- *)

EngineRules == [min_number |-> EngineMinNumber,
                max_number |-> EngineMaxNumber,
                max_tries_per_player |-> EngineMaxTries]

\* GameHistory(): three empty lists.
NoGameHistory == [narrator_feedback |-> <<>>,
                  other_player_guesses |-> <<>>,
                  game_commentary |-> <<>>]

NoRet == [op |-> "none"]

\* main() before it has called start_game; `guesses` counts the numbers its
\* turns have passed to the Referee.
MainNotStarted == [pc |-> "start", winner_found |-> FALSE, current_player |-> 1,
                   guesses |-> 0]

InitWith(rules) ==
    /\ ref_secret_number = None
    /\ ref_valid_range = <<RefereeInitMin, RefereeInitMax>>
    /\ ref_player_tries = <<>>
    /\ agent_previous_guesses = <<>>
    /\ agent_tries_remaining = AgentInitTries
    /\ agent_game_history = NoGameHistory
    /\ players = <<>>
    /\ game_state = [shared_valid_range |-> <<SharedInitMin, SharedInitMax>>,
                     secret_number |-> None,
                     last_guess |-> None,
                     current_turn |-> 0,
                     game_history |-> NoGameHistory]
    /\ game_rules = rules
    /\ started = FALSE
    /\ submitted = {}
    /\ failures = 0
    /\ chooser_calls = 0
    /\ direct_calls = 0
    /\ main_loop = MainNotStarted
    /\ ret = NoRet

\* GameEngine.__init__ (with the Referee, PlayerAgent and rules it creates).
Init == InitWith(EngineRules)


(* ------------------------------ actions ------------------------------- *)

\* An external call may raise (explored in small games, a bounded number of times).
MayFail == failures < MaxFailures /\ Cardinality(DOMAIN players) <= SmallPlayers

\* decide_action may pick one more number.
MayDecide == Len(agent_previous_guesses) < MaxChosen

\* The secret chooser may be asked once more.
MayChoose == chooser_calls < MaxChooserCalls

Returned(op, p, outcome, value, number, guess_result) ==
    [op |-> op, player |-> p, outcome |-> outcome, returned |-> value,
     number |-> number, guess_result |-> guess_result]

Raised(op, p, where, number, guess_result) ==
    Returned(op, p, where, None, number, guess_result)

SetAgent(a) ==
    /\ agent_previous_guesses' = a.previous_guesses
    /\ agent_tries_remaining' = a.tries_remaining
    /\ agent_game_history' = a.game_history

SetReferee(r) ==
    /\ ref_secret_number' = r.secret_number
    /\ ref_valid_range' = r.valid_range
    /\ ref_player_tries' = r.player_tries

\* start_game with n players; the secret chooser answers `chosen`.
StartGame(n, chosen) ==
    /\ ~started
    /\ MayChoose
    /\ started' = TRUE
    /\ players' = [p \in 1..n |-> NewPlayerState(p)]
    /\ LET r == GenerateSecretNumber(Referee, game_rules, chosen)
       IN  /\ SetReferee(r)
           /\ game_state' = [game_state EXCEPT !.secret_number = r.secret_number]
    /\ chooser_calls' = chooser_calls + 1
    /\ ret' = Returned("start_game", 0, "completed", None, Some(chosen), None)
    /\ UNCHANGED <<agentVars, game_rules, submitted, failures, direct_calls>>

\* start_game when the secret chooser raises: the players exist, no secret.
StartGameChooserRaises(n) ==
    /\ ~started
    /\ MayChoose
    /\ n <= SmallPlayers
    /\ failures < MaxFailures
    /\ started' = TRUE
    /\ players' = [p \in 1..n |-> NewPlayerState(p)]
    /\ failures' = failures + 1
    /\ chooser_calls' = chooser_calls + 1
    /\ ret' = Raised("start_game", 0, "chooser_raised", None, None)
    /\ UNCHANGED <<refVars, agentVars, game_state, game_rules, submitted,
                   direct_calls>>

\* process_guess for a player with no tries left: returns False at once.
ProcessGuessNoTries(p) ==
    /\ p \in DOMAIN players
    /\ NoTriesLeft(players[p])
    /\ ret' = Returned("process_guess", p, "no_tries", Some(FALSE), None, None)
    /\ UNCHANGED <<refVars, agentVars, players, game_state, game_rules, started,
                   submitted, failures, chooser_calls, direct_calls>>

\* process_guess when the action advisor raises inside decide_action.
ProcessGuessAdvisorRaises(p) ==
    /\ p \in DOMAIN players
    /\ ~NoTriesLeft(players[p])
    /\ ~DecideBefore(Agent, players[p]).forfeit
    /\ MayFail
    /\ SetAgent(DecideBefore(Agent, players[p]).agent)
    /\ failures' = failures + 1
    /\ ret' = Raised("process_guess", p, "advisor_raised", None, None)
    /\ UNCHANGED <<refVars, players, game_state, game_rules, started, submitted,
                   chooser_calls, direct_calls>>

\* process_guess when the chosen number fails validate_range: returns False.
ProcessGuessRejected(p, d) ==
    /\ p \in DOMAIN players
    /\ ~NoTriesLeft(players[p])
    /\ MayDecide
    /\ ~ValidateRange(d.action.number, game_state.shared_valid_range)
    /\ SetAgent(d.agent)
    /\ ret' = Returned("process_guess", p, "rejected", Some(FALSE),
                       Some(d.action.number), None)
    /\ UNCHANGED <<refVars, players, game_state, game_rules, started, submitted,
                   failures, chooser_calls, direct_calls>>

\* process_guess when validate_guess has to ask for a secret and the chooser raises.
ProcessGuessChooserRaises(p, d) ==
    /\ p \in DOMAIN players
    /\ ~NoTriesLeft(players[p])
    /\ MayDecide
    /\ MayFail
    /\ NeedsSecret(Referee)
    /\ MayChoose
    /\ ValidateRange(d.action.number, game_state.shared_valid_range)
    /\ SetAgent(d.agent)
    /\ submitted' = submitted \cup {d.action.number}
    /\ ret' = Raised("process_guess", p, "chooser_raised",
                     Some(d.action.number), None)
    /\ failures' = failures + 1
    /\ chooser_calls' = chooser_calls + 1
    /\ UNCHANGED <<refVars, players, game_state, game_rules, started, direct_calls>>

\* The chooser's answers validate_guess may get (one dummy when it is not asked).
ChooserDraws(ref, rules) ==
    IF NeedsSecret(ref) THEN ChooserOutputs(rules) ELSE {rules.min_number}

\* The chooser is asked by validate_guess exactly when the secret is falsy.
CountChooser(ref) ==
    IF NeedsSecret(ref)
    THEN MayChoose /\ chooser_calls' = chooser_calls + 1
    ELSE chooser_calls' = chooser_calls

\* process_guess when the narrator raises after the Referee has answered.
ProcessGuessNarratorRaises(p, d, chosen) ==
    /\ p \in DOMAIN players
    /\ ~NoTriesLeft(players[p])
    /\ MayDecide
    /\ MayFail
    /\ CountChooser(Referee)
    /\ LET v == ValidateGuess(Referee, d.action.number, game_rules, p, chosen)
       IN  /\ ValidateRange(d.action.number, game_state.shared_valid_range)
           /\ SetAgent(d.agent)
           /\ SetReferee(v.ref)
           /\ submitted' = submitted \cup {d.action.number}
           /\ ret' = Raised("process_guess", p, "narrator_raised",
                            Some(d.action.number), Some(v.result))
    /\ failures' = failures + 1
    /\ UNCHANGED <<players, game_state, game_rules, started, direct_calls>>

\* process_guess running to its end: returns guess_result.is_correct.
ProcessGuessCompletes(p, d, chosen) ==
    /\ p \in DOMAIN players
    /\ ~NoTriesLeft(players[p])
    /\ MayDecide
    /\ CountChooser(Referee)
    /\ LET number == d.action.number
           v == ValidateGuess(Referee, number, game_rules, p, chosen)
           narration == NarrateGuess(Context(game_state, players[p], p, number, v.result))
           ps == UpdatedPlayers(players, v.result.valid_range)
       IN  /\ ValidateRange(number, game_state.shared_valid_range)
           /\ SetAgent(d.agent)
           /\ SetReferee(v.ref)
           /\ submitted' = submitted \cup {number}
           /\ game_state' = UpdatedGameState(game_state, v.result.valid_range,
                                             number, narration)
           /\ players' = [ps EXCEPT ![p].last_feedback = Some(narration),
                                    ![p].previous_guesses = Append(@, number),
                                    ![p].attempts = @ + 1,
                                    ![p].tries_remaining = @ - 1]
           /\ ret' = Returned("process_guess", p, "completed",
                              Some(v.result.is_correct), Some(number), Some(v.result))
    /\ UNCHANGED <<game_rules, started, failures, direct_calls>>

\* process_guess: every way the handler can end.
ProcessGuess(p) ==
    \/ ProcessGuessNoTries(p)
    \/ ProcessGuessAdvisorRaises(p)
    \/ LET d == DecideAction(Agent, players[p])
       IN  \/ ProcessGuessRejected(p, d)
           \/ ProcessGuessChooserRaises(p, d)
           \/ \E chosen \in ChooserDraws(Referee, game_rules) :
                 \/ ProcessGuessNarratorRaises(p, d, chosen)
                 \/ ProcessGuessCompletes(p, d, chosen)

\* start_game for a game of at most maxn players.
StartGameOf(maxn) ==
    \E n \in 1..maxn :
        \/ \E chosen \in ChooserOutputs(game_rules) : StartGame(n, chosen)
        \/ StartGameChooserRaises(n)

\* The caller of the engine is not main(): main's locals stay as they are.
NotInMain == UNCHANGED main_loop

\* A game: start_game, then process_guess for the players in any order.
Next ==
    \/ StartGameOf(MaxPlayers) /\ NotInMain
    \/ (\E p \in DOMAIN players : ProcessGuess(p)) /\ NotInMain

Spec == Init /\ [][Next]_vars

(* ------------------ direct calls on a running game -------------------- *)

\* decide_action called directly on a player's state; the advisor answers.
DecideActionCall(p) ==
    /\ p \in DOMAIN players
    /\ direct_calls < MaxDirectCalls
    /\ ~DecideBefore(Agent, players[p]).forfeit => MayDecide
    /\ LET d == DecideAction(Agent, players[p])
       IN  /\ SetAgent(d.agent)
           /\ ret' = Returned("decide_action", p, "completed",
                              Some(d.action.action_type), Some(d.action.number), None)
    /\ direct_calls' = direct_calls + 1
    /\ UNCHANGED <<refVars, players, game_state, game_rules, started, submitted,
                   failures, chooser_calls, main_loop>>

\* decide_action called directly when the advisor raises.
DecideActionCallRaises(p) ==
    /\ p \in DOMAIN players
    /\ direct_calls < MaxDirectCalls
    /\ ~DecideBefore(Agent, players[p]).forfeit
    /\ MayFail
    /\ SetAgent(DecideBefore(Agent, players[p]).agent)
    /\ ret' = Raised("decide_action", p, "advisor_raised", None, None)
    /\ direct_calls' = direct_calls + 1
    /\ failures' = failures + 1
    /\ UNCHANGED <<refVars, players, game_state, game_rules, started, submitted,
                   chooser_calls, main_loop>>

\* check_game_over, as a caller's loop asks it between turns.
CheckGameOverCall ==
    /\ started
    /\ ret' = Returned("check_game_over", 0, "completed",
                       Some(CheckGameOver(players)), None, None)
    /\ UNCHANGED <<refVars, agentVars, players, game_state, game_rules, started,
                   submitted, failures, chooser_calls, direct_calls, main_loop>>

\* A small game whose caller also calls decide_action and check_game_over.
ApiNext ==
    \/ StartGameOf(SmallPlayers) /\ NotInMain
    \/ (\E p \in DOMAIN players : ProcessGuess(p)) /\ NotInMain
    \/ \E p \in DOMAIN players : DecideActionCall(p)
    \/ \E p \in DOMAIN players : DecideActionCallRaises(p)
    \/ CheckGameOverCall

ApiSpec == Init /\ [][ApiNext]_vars

(* ------------------------------- main() ------------------------------- *)

\* initial_state["players"]: player1 and player2.
MainPlayers == 2

\* What the secret chooser may answer when main starts the game.
MainSecrets == (EngineMinNumber - SecretSlack)..(EngineMaxNumber + SecretSlack)

\* A switch of players that keeps the same player.
OtherPlayerStays(p) == p

\* "player2" if current_player == "player1" else "player1"
OtherPlayer(p) == IF p = 1 THEN 2 ELSE 1

\* process_guess passed its number to validate_guess before it ended.
Submitted(r) == r.outcome \in {"completed", "narrator_raised", "chooser_raised"}

\* main's locals after `winner_found = await engine.process_guess(current_player)`
\* returned `found` and the switch of players that follows it.
AfterTurn(m, found, r) ==
    [m EXCEPT !.winner_found = found,
              !.current_player = IF found THEN @ ELSE OtherPlayer(@),
              !.guesses = IF Submitted(r) THEN @ + 1 ELSE @]

\* main calls start_game with its two players, then sets winner_found and
\* current_player; an exception out of start_game ends main.
MainStartGame ==
    /\ main_loop.pc = "start"
    /\ \/ /\ \E chosen \in MainSecrets : StartGame(MainPlayers, chosen)
          /\ main_loop' = [main_loop EXCEPT !.pc = "loop",
                                             !.winner_found = FALSE,
                                             !.current_player = 1]
       \/ /\ StartGameChooserRaises(MainPlayers)
          /\ main_loop' = [main_loop EXCEPT !.pc = "raised"]

\* One pass of the while loop: the test passes, process_guess runs for
\* current_player, and the players are switched unless it returned True; an
\* exception out of process_guess ends main.
MainTurn ==
    /\ main_loop.pc = "loop"
    /\ ~main_loop.winner_found
    /\ ~CheckGameOver(players)
    /\ ProcessGuess(main_loop.current_player)
    /\ main_loop' = IF ret'.returned = None
                     THEN [main_loop EXCEPT !.pc = "raised",
                                            !.guesses = IF Submitted(ret') THEN @ + 1
                                                        ELSE @]
                     ELSE AfterTurn(main_loop, Get(ret'.returned), ret')

\* The while test fails: main congratulates current_player or announces the
\* game over with game_state['secret_number'].
MainAnnounce ==
    /\ main_loop.pc = "loop"
    /\ main_loop.winner_found \/ CheckGameOver(players)
    /\ main_loop' = [main_loop EXCEPT !.pc = IF main_loop.winner_found THEN "won"
                                               ELSE "game_over"]
    /\ ret' = Returned("main", main_loop.current_player,
                        IF main_loop.winner_found THEN "won" ELSE "game_over",
                        None, game_state.secret_number, None)
    /\ UNCHANGED <<refVars, agentVars, players, game_state, game_rules, started,
                   submitted, failures, chooser_calls, direct_calls>>

MainNext ==
    \/ MainStartGame
    \/ MainTurn
    \/ MainAnnounce

\* main() run by asyncio.run.
MainSpec == Init /\ [][MainNext]_vars

\* main is one coroutine that asyncio.run drives to its end: while it has a
\* next step, the step is taken.
MainLiveSpec == MainSpec /\ WF_vars(MainNext)

(* ------------------------- the Referee alone -------------------------- *)

\* The rules a caller of the Referee may pass.
RefRules ==
    {r \in [min_number : (RulesDefaultMin - RuleSlack)..RulesDefaultMin,
            max_number : (RulesDefaultMin - RuleSlack)..(RulesDefaultMin + RangeSpan),
            max_tries_per_player : (RulesDefaultTries - RuleSlack)..RulesDefaultTries] :
        /\ r.min_number <= r.max_number
        /\ r.max_number <= r.min_number + RangeSpan}

\* The guesses a caller of the Referee may pass.
GuessInputs(rules) == (rules.min_number - GuessSlack)..(rules.max_number + GuessSlack)

RefInit == \E rules \in RefRules : InitWith(rules)

\* The secret chooser may be asked once more by a caller of the Referee.
RefMayChoose == chooser_calls < RefMaxChooserCalls

\* The chooser is asked by validate_guess exactly when the secret is falsy.
RefCountChooser(ref) ==
    IF NeedsSecret(ref)
    THEN RefMayChoose /\ chooser_calls' = chooser_calls + 1
    ELSE chooser_calls' = chooser_calls

\* generate_secret_number called directly; the chooser answers `chosen`.
RefGenerateSecret(chosen) ==
    /\ RefMayChoose
    /\ SetReferee(GenerateSecretNumber(Referee, game_rules, chosen))
    /\ chooser_calls' = chooser_calls + 1
    /\ ret' = Returned("generate_secret_number", 0, "completed", Some(chosen),
                       Some(chosen), None)
    /\ UNCHANGED <<agentVars, players, game_state, game_rules, started, submitted,
                   failures, direct_calls, main_loop>>

\* validate_guess called directly for player p.
RefValidateGuess(p, guess, chosen) ==
    /\ RefCountChooser(Referee)
    /\ LET v == ValidateGuess(Referee, guess, game_rules, p, chosen)
       IN  /\ SetReferee(v.ref)
           /\ ret' = Returned("validate_guess", p, "completed", Some(v.result.is_correct),
                              Some(guess), Some(v.result))
    /\ UNCHANGED <<agentVars, players, game_state, game_rules, started, submitted,
                   failures, direct_calls, main_loop>>

RefNext ==
    \/ \E chosen \in ChooserOutputs(game_rules) : RefGenerateSecret(chosen)
    \/ \E p \in 1..SmallPlayers, guess \in GuessInputs(game_rules) :
          \E chosen \in ChooserDraws(Referee, game_rules) :
             RefValidateGuess(p, guess, chosen)

RefSpec == RefInit /\ [][RefNext]_vars

(* ---------------------- get_optimal_guess alone ----------------------- *)

SelNumbers == 0..SelMaxNumber

\* The valid_range of the PlayerState passed in (min_val > max_val included).
SelRanges == SelNumbers \X SelNumbers

\* The lists previous_guesses and other_player_guesses may hold.
SelLists == UNION {[1..n -> SelNumbers] : n \in 0..SelMaxLen}

\* A PlayerAgent whose two guess lists already hold some numbers.
SelInit ==
    /\ ref_secret_number = None
    /\ ref_valid_range = <<RefereeInitMin, RefereeInitMax>>
    /\ ref_player_tries = <<>>
    /\ agent_previous_guesses \in SelLists
    /\ agent_tries_remaining = AgentInitTries
    /\ \E others \in SelLists :
          agent_game_history = [NoGameHistory EXCEPT !.other_player_guesses = others]
    /\ players = <<>>
    /\ game_state = [shared_valid_range |-> <<SharedInitMin, SharedInitMax>>,
                     secret_number |-> None,
                     last_guess |-> None,
                     current_turn |-> 0,
                     game_history |-> NoGameHistory]
    /\ game_rules = EngineRules
    /\ started = FALSE
    /\ submitted = {}
    /\ failures = 0
    /\ chooser_calls = 0
    /\ direct_calls = 0
    /\ main_loop = MainNotStarted
    /\ ret = NoRet

\* get_optimal_guess called with a PlayerState whose valid_range is `range`.
GetOptimalGuessCall(range) ==
    /\ ret' = [op |-> "get_optimal_guess", player |-> 0, outcome |-> "completed",
               returned |-> Some(GetOptimalGuess(range, agent_previous_guesses,
                                     agent_game_history.other_player_guesses)),
               number |-> None, guess_result |-> None, valid_range |-> range]
    /\ UNCHANGED <<refVars, agentVars, players, game_state, game_rules, started,
                   submitted, failures, chooser_calls, direct_calls, main_loop>>

SelNext == \E range \in SelRanges : GetOptimalGuessCall(range)

SelSpec == SelInit /\ [][SelNext]_vars

(* ------------------------------ claims -------------------------------- *)

InRange(n, range) == range[1] <= n /\ n <= range[2]

\* The last operation was `op` (a step that sets ret is a step of that operation).
Did(op) == ret.op = op
Does(op) == ret'.op = op

\* The secret the Referee holds lies in the rules' range.
SecretInRules ==
    /\ ref_secret_number # None
    /\ InRange(Get(ref_secret_number), <<game_rules.min_number, game_rules.max_number>>)

\* A game as the rules mean it: the chooser was asked once, answered within the
\* rules' range, and no external call has raised.
CleanGame == SecretInRules /\ chooser_calls = 1 /\ failures = 0

\* C1: whenever the Referee's secret lies in the rules' range, its valid_range
\* contains the secret, after any sequence of validate_guess calls with any
\* guesses by any players: narrowing never excludes the secret.
C1_SecretStaysInRange ==
    SecretInRules => InRange(Get(ref_secret_number), ref_valid_range)

\* C1 witness: validate_guess has just narrowed the range, on a wrong guess, down
\* to the secret alone.
C1_Witness ==
    /\ Did("validate_guess")
    /\ SecretInRules
    /\ Get(ret.guess_result).distance \in {"higher", "lower"}
    /\ ref_valid_range = <<Get(ref_secret_number), Get(ref_secret_number)>>
    /\ game_rules.min_number < game_rules.max_number

\* C2: a process_guess whose chosen number lies outside the engine's shared range
\* returns False without calling validate_guess, and leaves the players (their
\* tries), the Referee (its tries and range) and the engine's state (shared range,
\* current_turn) as they were.
C2_OutOfRangeRejected ==
    [][(/\ Does("process_guess")
        /\ ret'.number # None
        /\ ~InRange(Get(ret'.number), game_state.shared_valid_range))
       => (/\ ret'.returned = Some(FALSE)
           /\ ret'.guess_result = None
           /\ submitted' = submitted
           /\ UNCHANGED <<players, refVars, game_state>>)]_vars

\* C2 witness: a turn has been rejected for a number outside the shared range.
C2_Witness ==
    /\ Did("process_guess")
    /\ ret.outcome = "rejected"
    /\ ~InRange(Get(ret.number), game_state.shared_valid_range)

\* C3: from one state to the next no player's tries_remaining increases or is
\* below 0, and the same holds for every entry of the Referee's player_tries.
C3_TriesNeverIncrease ==
    [][/\ \A p \in DOMAIN players :
            /\ p \in DOMAIN players'
            /\ players'[p].tries_remaining <= players[p].tries_remaining
       /\ \A p \in DOMAIN players' : players'[p].tries_remaining >= 0
       /\ \A p \in DOMAIN ref_player_tries :
            /\ p \in DOMAIN ref_player_tries'
            /\ ref_player_tries'[p] <= ref_player_tries[p]
       /\ \A p \in DOMAIN ref_player_tries' : ref_player_tries'[p] >= 0]_vars

\* C3 witness: a player has used up all tries, in the engine and at the Referee,
\* and process_guess has been called for that player again.
C3_Witness ==
    /\ Did("process_guess")
    /\ ret.outcome = "no_tries"
    /\ players[ret.player].tries_remaining = 0
    /\ ret.player \in DOMAIN ref_player_tries
    /\ ref_player_tries[ret.player] = 0

\* C4: when the narrator raises after validate_guess has returned, nothing of the
\* turn has taken effect: the Referee's tries and range, the engine's state and
\* the players are as before the turn (stated for a secret within the rules'
\* range, chosen once).
C4_TurnAllOrNothing ==
    [][(/\ Does("process_guess") /\ ret'.outcome = "narrator_raised"
        /\ SecretInRules /\ chooser_calls' = 1)
       => UNCHANGED <<ref_player_tries, ref_valid_range, game_state, players>>]_vars

\* C5: generate_secret_number called on a Referee that already holds a secret
\* returns that secret and changes neither secret_number nor valid_range
\* (stated for a chooser that answers within the rules' range both times).
C5_GenerateIdempotent ==
    [][(Does("generate_secret_number") /\ SecretInRules /\ SecretInRules')
       => (/\ ret'.returned = ref_secret_number
           /\ ref_secret_number' = ref_secret_number
           /\ ref_valid_range' = ref_valid_range)]_vars

\* The Referee's budget for p is not used up (a player not yet seen has 3 tries).
RefHasTries(p) == p \notin DOMAIN ref_player_tries \/ ref_player_tries[p] > 0

C7_WrongGuessNarrows ==
    [][(/\ Does("validate_guess")
        /\ SecretInRules
        /\ SecretInRules'
        /\ RefHasTries(ret'.player)
        /\ ret'.number # ref_secret_number)
       => LET g == Get(ret'.number)
              s == Get(ref_secret_number)
              r == Get(ret'.guess_result)
          IN  /\ ~r.is_correct
              /\ r.valid_range = ref_valid_range'
              /\ g > s => r.distance = "lower"
                          /\ ref_valid_range' = <<ref_valid_range[1], g - 1>>
              /\ g < s => r.distance = "higher"
                          /\ ref_valid_range' = <<g + 1, ref_valid_range[2]>>]_vars

\* The numbers of the acting player's range that decide_action has not picked yet.
Unpicked(p) ==
    {n \in players[p].valid_range[1]..players[p].valid_range[2] :
        ~Contains(agent_previous_guesses, n)}

\* C8: the number chosen in a process_guess turn has never been
\* submitted to the Referee before, by this player or another (stated for a
\* game whose secret was chosen once, within the rules' range, and in which no
\* external call has raised).
C8_NeverRepeats ==
    [][(Does("process_guess") /\ ret'.number # None /\ CleanGame')
       => Get(ret'.number) \notin submitted]_vars

\* C8 amended: while the acting player's range holds a number not picked so far,
\* the number chosen in a process_guess turn has never been submitted to the
\* Referee (nor picked) before; only when every number of the range has been
\* picked does get_optimal_guess fall back to the range's min.
C8_NeverRepeatsWhileUnpicked ==
    [][(Does("process_guess") /\ ret'.number # None)
       => IF Unpicked(ret'.player) # {}
          THEN /\ Get(ret'.number) \notin submitted
               /\ ~Contains(agent_previous_guesses, Get(ret'.number))
          ELSE Get(ret'.number) = players[ret'.player].valid_range[1]]_vars

\* C8 witness: a turn has completed with a new number while a number submitted
\* earlier still lies in the shared range.
C8_Witness ==
    /\ Did("process_guess")
    /\ ret.outcome = "completed"
    /\ \E n \in submitted :
          /\ n # Get(ret.number)
          /\ InRange(n, game_state.shared_valid_range)

\* A correct guess has been narrated in this game.
VictoryNarrated ==
    \E i \in 1..Len(game_state.game_history.narrator_feedback) :
        game_state.game_history.narrator_feedback[i][1] = "victory"

\* C9: check_game_over returns true exactly when every player's tries_remaining
\* is at most 0, whether or not a guess has been correct.
C9_GameOverIffNoTries ==
    Did("check_game_over")
        => (Get(ret.returned) <=> \A p \in DOMAIN players : players[p].tries_remaining <= 0)

\* C9 witness: after a correct guess, check_game_over has returned true once the
\* last player's tries reached 0.
C9_Witness ==
    /\ Did("check_game_over")
    /\ Get(ret.returned)
    /\ VictoryNarrated
    /\ Cardinality(DOMAIN players) = SmallPlayers

\* C10: a player with one try left who submits a wrong guess has no tries left
\* afterwards; and for a player with no tries left decide_action returns a forfeit
\* and process_guess returns False without submitting a guess to the Referee.
C10_LastTryThenForfeit ==
    [][\A p \in DOMAIN players :
        /\ (/\ Does("process_guess") /\ ret'.player = p
            /\ SecretInRules /\ chooser_calls' = 1
            /\ players[p].tries_remaining = 1
            /\ ret'.guess_result # None
            /\ ~Get(ret'.guess_result).is_correct)
           => players'[p].tries_remaining = 0
        /\ (/\ Does("decide_action") /\ ret'.player = p
            /\ players[p].tries_remaining = 0)
           => ret'.returned = Some("forfeit")
        /\ (/\ Does("process_guess") /\ ret'.player = p
            /\ players[p].tries_remaining = 0)
           => (/\ ret'.returned = Some(FALSE)
               /\ submitted' = submitted
               /\ UNCHANGED refVars)]_vars


\* The last operation ran to its end (no external call raised).
Completed(op) == Did(op) /\ ret.outcome = "completed"

\* C11: after start_game and after every completed process_guess turn, every
\* player's valid_range, min_range and max_range equal the engine's
\* shared_valid_range, which equals the Referee's valid_range.
C11_RangeCopiesAgree ==
    (Completed("start_game") \/ Completed("process_guess"))
        => /\ game_state.shared_valid_range = ref_valid_range
           /\ \A p \in DOMAIN players :
                 /\ players[p].valid_range = game_state.shared_valid_range
                 /\ players[p].min_range = game_state.shared_valid_range[1]
                 /\ players[p].max_range = game_state.shared_valid_range[2]

\* C11 witness: a turn has completed in a game of several players after the range
\* was narrowed at the Referee by a turn whose narration failed.
C11_Witness ==
    /\ Completed("process_guess")
    /\ Cardinality(DOMAIN players) > 1
    /\ failures > 0
    /\ game_state.shared_valid_range # <<game_rules.min_number, game_rules.max_number>>


\* The numbers of a list.
Elements(seq) == {seq[i] : i \in 1..Len(seq)}

\* The numbers of `range` that are in neither guess list of the PlayerAgent.
NotForbidden(range) ==
    {n \in range[1]..range[2] :
        n \notin Elements(agent_previous_guesses)
                 \cup Elements(agent_game_history.other_player_guesses)}

\* C12: get_optimal_guess is determined by the range and the set of forbidden
\* numbers: with L the numbers of [min, max] that are not forbidden, in ascending
\* order, it returns the number of L that has floor(len(L) / 2) numbers of L
\* below it when L is not empty, and min when L is empty.
C12_OptimalGuessIsMiddle ==
    [][Does("get_optimal_guess")
       => LET L == NotForbidden(ret'.valid_range)
              r == Get(ret'.returned)
          IN  IF L = {}
              THEN r = ret'.valid_range[1]
              ELSE /\ r \in L
                   /\ Cardinality({n \in L : n < r}) = Cardinality(L) \div 2]_vars

\* C12 witness: get_optimal_guess has returned the upper of the two middle
\* numbers of a range with a forbidden number in it.
C12_Witness ==
    /\ Did("get_optimal_guess")
    /\ Cardinality(NotForbidden(ret.valid_range)) = 2
    /\ Cardinality(NotForbidden(ret.valid_range))
         < ret.valid_range[2] - ret.valid_range[1] + 1
    /\ Get(ret.returned) \in NotForbidden(ret.valid_range)


\* The secret start_game got from the chooser lies in the rules' range.
StartSecretInRules ==
    /\ game_state.secret_number # None
    /\ InRange(Get(game_state.secret_number),
               <<game_rules.min_number, game_rules.max_number>>)

\* C13: in a game whose secret, chosen at start, lies in the initial range, no
\* step lowers the min or raises the max of the engine's shared range, and
\* min <= max holds after every step (in particular while no guess has been
\* correct).
C13_SharedRangeOnlyNarrows ==
    [][StartSecretInRules
       => /\ game_state'.shared_valid_range[1] >= game_state.shared_valid_range[1]
          /\ game_state'.shared_valid_range[2] <= game_state.shared_valid_range[2]
          /\ game_state'.shared_valid_range[1] <= game_state'.shared_valid_range[2]]_vars

\* C13 witness: wrong guesses alone have narrowed the shared range down to one
\* number.
C13_Witness ==
    /\ StartSecretInRules
    /\ Completed("process_guess")
    /\ ~VictoryNarrated
    /\ game_state.shared_valid_range[1] = game_state.shared_valid_range[2]


\* C14: once start_game has completed, whatever integer the chooser returned, no
\* later step changes the Referee's secret_number or the engine's copy of it, and
\* no later step asks the chooser again.
C14_SecretNeverChanges ==
    [][(game_state.secret_number # None /\ failures' = 0)
       => /\ ref_secret_number' = ref_secret_number
          /\ game_state'.secret_number = game_state.secret_number
          /\ chooser_calls' = chooser_calls]_vars


\* The Referee's budget for p is used up.
RefExhausted(p) == p \in DOMAIN ref_player_tries /\ ref_player_tries[p] <= 0

\* C15: validate_guess for a player whose tries are already 0 returns
\* is_correct = false, distance "none", the current range and tries_remaining 0,
\* and leaves the Referee's player_tries, valid_range and secret_number unchanged
\* (stated for a chooser that only answers within the rules' range).
C15_ExhaustedCallChangesNothing ==
    [][(/\ Does("validate_guess")
        /\ SecretInRules
        /\ SecretInRules'
        /\ RefExhausted(ret'.player))
       => (/\ Get(ret'.guess_result) = GuessResult(FALSE, "none", ref_valid_range, 0)
           /\ UNCHANGED refVars)]_vars


\* C16: for every value of max_tries_per_player, validate_guess gives a player
\* it sees for the first time a budget of max_tries_per_player tries (of which
\* the call consumes one), so that the Referee's count is the count of an engine
\* that starts every player with max_tries_per_player tries (stated for a secret
\* within the rules' range).
C16_BudgetFromRules ==
    [][(/\ Does("validate_guess")
        /\ SecretInRules'
        /\ ret'.player \notin DOMAIN ref_player_tries)
       => (/\ ref_player_tries'[ret'.player] = game_rules.max_tries_per_player - 1
           /\ Get(ret'.guess_result).tries_remaining
                = game_rules.max_tries_per_player - 1)]_vars


\* The range after the step lies within the range before it.
RefRangeNotWidened ==
    /\ ref_valid_range'[1] >= ref_valid_range[1]
    /\ ref_valid_range'[2] <= ref_valid_range[2]

\* C17: for every Referee state and every integer guess passed to
\* validate_guess, a guess outside the current valid_range included, the range
\* after the call is contained in the range before it (stated for a secret that is
\* set, not 0 and within the rules' range, so that the call does not generate it).
C17_NeverWidens ==
    [][(/\ Does("validate_guess")
        /\ SecretInRules
        /\ Truthy(ref_secret_number))
       => RefRangeNotWidened]_vars

\* C17 amended: a validate_guess call that does not generate the secret, with a
\* guess inside the current valid_range, leaves a range contained in the range
\* before the call.
C17_InRangeGuessNeverWidens ==
    [][(/\ Does("validate_guess")
        /\ chooser_calls' = chooser_calls
        /\ InRange(Get(ret'.number), ref_valid_range))
       => RefRangeNotWidened]_vars

\* C17 witness: wrong guesses from inside the range have moved both of its ends,
\* the last one just now, down to the secret alone.
C17_Witness ==
    /\ Did("validate_guess")
    /\ Truthy(ref_secret_number)
    /\ ~Get(ret.guess_result).is_correct
    /\ Get(ret.number) \in {Get(ref_secret_number) - 1, Get(ref_secret_number) + 1}
    /\ InRange(Get(ret.number), <<game_rules.min_number, game_rules.max_number>>)
    /\ ref_valid_range = <<Get(ref_secret_number), Get(ref_secret_number)>>
    /\ game_rules.min_number < ref_valid_range[1]
    /\ ref_valid_range[2] < game_rules.max_number


\* The step is a process_guess turn that passed its number to validate_guess.
SubmitsGuess ==
    /\ Does("process_guess")
    /\ ret'.outcome \in {"completed", "narrator_raised", "chooser_raised"}

\* C18: the number decide_action chooses enters the PlayerAgent's recorded
\* guesses (the list later selections exclude) only in a step that submits it to
\* the Referee, and then exactly once; a turn rejected as out of range, like any
\* step that submits nothing, leaves the recorded guesses unchanged (stated for a
\* game whose secret was chosen once and in which no external call has raised).
C18_RecordedOnlyWhenSubmitted ==
    [][(chooser_calls' = 1 /\ failures' = 0)
       => /\ SubmitsGuess
             => agent_previous_guesses' = Append(agent_previous_guesses, Get(ret'.number))
          /\ ~SubmitsGuess
             => agent_previous_guesses' = agent_previous_guesses]_vars


\* List a is the beginning of list b.
IsPrefix(a, b) == Len(a) <= Len(b) /\ SubSeq(b, 1, Len(a)) = a

\* Every list of the later GameHistory begins with that of the earlier one.
Extends(h1, h2) ==
    /\ IsPrefix(h1.narrator_feedback, h2.narrator_feedback)
    /\ IsPrefix(h1.other_player_guesses, h2.other_player_guesses)
    /\ IsPrefix(h1.game_commentary, h2.game_commentary)

\* C19: the engine's GameHistory is append-only, and a completed process_guess
\* turn appends to it both the narration of the turn and the number guessed, so
\* that it holds every guess made, in order (stated for a game whose secret was
\* chosen once, within the rules' range).
C19_HistoryHoldsGuessAndNarration ==
    [][(SecretInRules /\ chooser_calls' = 1)
       => /\ Extends(game_state.game_history, game_state'.game_history)
          /\ (Does("process_guess") /\ ret'.outcome = "completed")
             => /\ Len(game_state'.game_history.narrator_feedback)
                     = Len(game_state.game_history.narrator_feedback) + 1
                /\ game_state'.game_history.other_player_guesses
                     = Append(game_state.game_history.other_player_guesses,
                              Get(ret'.number))]_vars


\* A range with min > max.
EmptyRange(range) == range[1] > range[2]

\* C20: once narrowing has left the Referee with a range whose min exceeds its
\* max, the game is in a failure state: a later process_guess does not run a
\* turn with that range (no number is chosen or recorded, no guess is submitted,
\* and neither the Referee, the players nor the engine's state change); stated
\* for a game whose secret was chosen once and in which no external call has raised.
C20_EmptyRangeEndsGame ==
    [][(/\ EmptyRange(ref_valid_range)
        /\ Does("process_guess")
        /\ chooser_calls' = 1
        /\ failures' = 0)
       => (/\ ret'.number = None
           /\ submitted' = submitted
           /\ UNCHANGED <<refVars, agentVars, players, game_state>>)]_vars


\* main has left its loop and made its announcement.
MainEnded == main_loop.pc \in {"won", "game_over"}

\* Some completed turn guessed the Referee's secret.
SecretGuessed ==
    \E p \in DOMAIN players :
        Contains(players[p].previous_guesses, Get(ref_secret_number))

AllTriesUsed == \A p \in DOMAIN players : players[p].tries_remaining = 0

\* A pass of main's loop is being made: process_guess runs for current_player.
MainTurnStep == main_loop.pc = "loop" /\ Does("process_guess") /\ vars' # vars

SecretSubmitted == Submitted(ret') /\ ret'.number = ref_secret_number'

\* main announces a winner in this step.
AnnouncesWinner == Does("main") /\ vars' # vars /\ ret'.outcome = "won"

\* After a win no number is decided or submitted and no turn is played.
NothingAfterWin ==
    [][main_loop.winner_found
       => /\ UNCHANGED <<refVars, agentVars, players, game_state, submitted>>
          /\ main_loop'.guesses = main_loop.guesses
          /\ main_loop'.current_player = main_loop.current_player]_vars

\* The winner main announces is the player whose process_guess, the call just
\* before, returned True for a number equal to the secret.
WinnerIsGuesser ==
    [][AnnouncesWinner
       => /\ Did("process_guess")
          /\ ret.returned = Some(TRUE)
          /\ ret.number = ref_secret_number
          /\ ret'.player = ret.player]_vars

\* C22: in main's loop a winner is found, and then announced, exactly when a
\* number passed to the Referee equalled the secret; the winner announced is
\* the player who submitted it; and after the correct guess no number is
\* decided or submitted by any player (stated for a game whose secret was
\* chosen once, at start).
C22_WinnerIffSecretSubmitted ==
    /\ [][(MainTurnStep /\ chooser_calls' = 1)
          => (main_loop'.winner_found <=> SecretSubmitted)]_vars
    /\ [](MainEnded => (main_loop.pc = "won" <=> main_loop.winner_found))
    /\ WinnerIsGuesser
    /\ NothingAfterWin

\* What main does do: in a pass whose process_guess returns, a winner is found
\* exactly when the number passed to the Referee equalled the secret; a pass
\* in which an external call raises ends main with no winner found, whatever
\* was submitted; the rest as in C22.
WinnerIffSecretSubmittedAndReturned ==
    /\ [][MainTurnStep
          => /\ ret'.returned # None
                => (main_loop'.winner_found <=> SecretSubmitted)
             /\ ret'.returned = None
                => (~main_loop'.winner_found /\ main_loop'.pc = "raised")]_vars
    /\ [](MainEnded => (main_loop.pc = "won" <=> main_loop.winner_found))
    /\ [](main_loop.pc = "raised" => ~main_loop.winner_found)
    /\ WinnerIsGuesser
    /\ NothingAfterWin

\* main has announced player2 as the winner: player2's last guess, the last
\* number passed to the Referee, is the secret, and player1 guessed before.
Player2Announced ==
    /\ main_loop.pc = "won"
    /\ Did("main") /\ ret.player = 2
    /\ main_loop.current_player = 2
    /\ players[2].previous_guesses # <<>>
    /\ players[2].previous_guesses[Len(players[2].previous_guesses)]
          = Get(ref_secret_number)
    /\ game_state.last_guess = ref_secret_number
    /\ players[1].previous_guesses # <<>>

=============================================================================
